---- MODULE Spec2Model ----
(***************************************************************************)
(* Red-black tree Set<ValueType> of src/rbtree.cpp.                        *)
(*                                                                         *)
(* The heap is a finite array of node cells addressed 0..MaxNodes; cell 0  *)
(* is the sentinel terminal_ allocated by Set::Set().  Every Node field    *)
(* (data, color, left, right, parent) is a function from addresses to its  *)
(* value, and the Set members root_, size_, head_, tail_ are variables.    *)
(* The operations are translated statement by statement as operators on a  *)
(* record t that packs these fields, so that one action is one whole call. *)
(*                                                                         *)
(* The program never orders or computes with addresses, it only compares   *)
(* them for equality, so its behaviour is the same under any renaming of   *)
(* the cells `new` hands out.  The model fixes one allocator: the node     *)
(* created for payload v lives in cell v (free at that point, since a      *)
(* payload is allocated only when no node holds it).                       *)
(***************************************************************************)
EXTENDS Integers, Sequences, FiniteSets, TLC

\* ---- bounds -------------------------------------------------------------
MaxVal == 6                      \* payloads are drawn from 1..MaxVal

Val == 1..MaxVal
MaxNodes == MaxVal               \* heap cells available to `new Node`
terminal_ == 0                   \* address of the sentinel
Addr == 0..MaxNodes
NoData == 0                      \* ValueType() of the sentinel / content of a free cell

VARIABLES data, color, left, right, parent,   \* Node fields, per address
          root_, size_, head_, tail_,         \* Set members
          heap,                               \* addresses currently allocated
          op, arg, ret,                       \* last call, its argument, its result
          abs,                                \* the mathematical set the calls describe
          hit,                                \* was the last call's element in abs?
          fixup,                              \* did the last call run erase_fix_up?
          relinked,                           \* did it move a successor into the erased place?
          pc,                                 \* "live", "loop" (inside ~Set) or "dead"
          target,                             \* members of the Set move-constructed from this one
          log,                                \* cells ~Set has freed, in order
          size0                               \* size() when ~Set was entered

treeVars == <<data, color, left, right, parent, root_, size_, head_, tail_, heap>>
vars == <<data, color, left, right, parent, root_, size_, head_, tail_, heap,
          op, arg, ret, abs, hit, fixup, relinked, pc, target, log, size0>>
lifeVars == <<pc, target, log, size0>>

\* The object state as one record; the operators below transform it.
Tree == [data |-> data, color |-> color, left |-> left, right |-> right,
         parent |-> parent, root |-> root_, size |-> size_, head |-> head_,
         tail |-> tail_, heap |-> heap]

Install(t) ==
    /\ data' = t.data
    /\ color' = t.color
    /\ left' = t.left
    /\ right' = t.right
    /\ parent' = t.parent
    /\ root_' = t.root
    /\ size_' = t.size
    /\ head_' = t.head
    /\ tail_' = t.tail
    /\ heap' = t.heap

\* The element of a one-element set. Only({f(t) : t \in {e}}) is f(e) with e
\* evaluated once, however often f reads its argument.
Only(S) == CHOOSE r \in S : TRUE

\* ---- Node navigation ------------------------------------------------------
RECURSIVE minimum(_, _)
minimum(t, x) == IF t.left[x] # terminal_ THEN minimum(t, t.left[x]) ELSE x

RECURSIVE maximum(_, _)
maximum(t, x) == IF t.right[x] # terminal_ THEN maximum(t, t.right[x]) ELSE x

RECURSIVE nextClimb(_, _, _)
nextClimb(t, x, y) ==
    IF x # terminal_ /\ y = t.right[x] THEN nextClimb(t, t.parent[x], x) ELSE x

\* Variant of next: without the climb past right-child ancestors.
next_noClimb(t, n) ==
    IF t.right[n] # terminal_ THEN minimum(t, t.right[n]) ELSE t.parent[n]

next(t, n) ==
    IF t.right[n] # terminal_ THEN minimum(t, t.right[n])
    ELSE nextClimb(t, t.parent[n], n)

RECURSIVE prevClimb(_, _, _)
prevClimb(t, x, y) ==
    IF x # terminal_ /\ y = t.left[x] THEN prevClimb(t, t.parent[x], x) ELSE x

prev(t, n) ==
    IF t.left[n] # terminal_ THEN maximum(t, t.left[n])
    ELSE prevClimb(t, t.parent[n], n)

\* ---- Set::Set() -----------------------------------------------------------
EmptySet ==
    [data |-> [a \in Addr |-> NoData],
     color |-> [a \in Addr |-> "BLACK"],
     left |-> [a \in Addr |-> terminal_],
     right |-> [a \in Addr |-> terminal_],
     parent |-> [a \in Addr |-> terminal_],
     root |-> terminal_, size |-> 0, head |-> terminal_, tail |-> terminal_,
     heap |-> {terminal_}]

\* ---- structural primitives -------------------------------------------------
\* Each operation is the composition of its statements, in program order; a
\* statement is a local operator from the tree before it to the tree after.

\* Rewires the child slot of x->parent that holds x (root_ when x is the root).
replaceChild(t, x, y) ==
    IF t.parent[x] = terminal_ THEN [t EXCEPT !.root = y]
    ELSE IF x = t.left[t.parent[x]] THEN [t EXCEPT !.left[t.parent[x]] = y]
    ELSE [t EXCEPT !.right[t.parent[x]] = y]

\* Variant of transplant: y->parent = x->parent is missing.
transplant_parentKept(t, x, y) == replaceChild(t, x, y)

transplant(t, x, y) ==
    LET s1(u) == replaceChild(u, x, y)
        s2(u) == [u EXCEPT !.parent[y] = u.parent[x]]
    IN  s2(s1(t))

\* Variant of left_rotate: y->left->parent = x is not guarded against the
\* sentinel.
left_rotate_unguarded(t, x) ==
    LET y == t.right[x]
        s1(u) == [u EXCEPT !.right[x] = u.left[y]]
        s2(u) == [u EXCEPT !.parent[u.left[y]] = x]
        s3(u) == IF y # terminal_ THEN [u EXCEPT !.parent[y] = u.parent[x]] ELSE u
        s4(u) == replaceChild(u, x, y)
        s5(u) == [u EXCEPT !.left[y] = x]
        s6(u) == IF x # terminal_ THEN [u EXCEPT !.parent[x] = y] ELSE u
    IN  s6(s5(s4(s3(s2(s1(t))))))

left_rotate(t_, x_) ==
    LET run(t, x) ==
        LET y == t.right[x]
            s1(u) == [u EXCEPT !.right[x] = u.left[y]]
            s2(u) == IF u.left[y] # terminal_ THEN [u EXCEPT !.parent[u.left[y]] = x] ELSE u
            s3(u) == IF y # terminal_ THEN [u EXCEPT !.parent[y] = u.parent[x]] ELSE u
            s4(u) == replaceChild(u, x, y)
            s5(u) == [u EXCEPT !.left[y] = x]
            s6(u) == IF x # terminal_ THEN [u EXCEPT !.parent[x] = y] ELSE u
        IN  s6(s5(s4(s3(s2(s1(t))))))
    IN  Only({run(t, x) : t \in {t_}, x \in {x_}})

right_rotate(t_, x_) ==
    LET run(t, x) ==
        LET y == t.left[x]
            s1(u) == [u EXCEPT !.left[x] = u.right[y]]
            s2(u) == IF u.right[y] # terminal_ THEN [u EXCEPT !.parent[u.right[y]] = x] ELSE u
            s3(u) == IF y # terminal_ THEN [u EXCEPT !.parent[y] = u.parent[x]] ELSE u
            s4(u) == IF u.parent[x] = terminal_ THEN [u EXCEPT !.root = y]
                     ELSE IF x = u.right[u.parent[x]] THEN [u EXCEPT !.right[u.parent[x]] = y]
                     ELSE [u EXCEPT !.left[u.parent[x]] = y]
            s5(u) == [u EXCEPT !.right[y] = x]
            s6(u) == IF x # terminal_ THEN [u EXCEPT !.parent[x] = y] ELSE u
        IN  s6(s5(s4(s3(s2(s1(t))))))
    IN  Only({run(t, x) : t \in {t_}, x \in {x_}})

\* ---- insertion -------------------------------------------------------------
RECURSIVE insert_fix_up_loop(_, _)
insert_fix_up_loop(t, x) ==
    LET p == t.parent[x]
        g == t.parent[t.parent[x]]
        \* uncle RED: recolour and continue from the grandparent
        recolour(y) == [t EXCEPT !.color[p] = "BLACK", !.color[y] = "BLACK",
                                 !.color[g] = "RED"]
        \* uncle BLACK, parent is a left child
        xl == IF x = t.right[p] THEN p ELSE x
        l1(u) == IF x = t.right[p] THEN left_rotate(u, p) ELSE u
        l2(u) == [u EXCEPT !.color[u.parent[xl]] = "BLACK"]
        l3(u) == [u EXCEPT !.color[u.parent[u.parent[xl]]] = "RED"]
        l4(u) == right_rotate(u, u.parent[u.parent[xl]])
        \* uncle BLACK, parent is a right child
        xr == IF x = t.left[p] THEN p ELSE x
        r1(u) == IF x = t.left[p] THEN right_rotate(u, p) ELSE u
        r2(u) == [u EXCEPT !.color[u.parent[xr]] = "BLACK"]
        r3(u) == [u EXCEPT !.color[u.parent[u.parent[xr]]] = "RED"]
        r4(u) == left_rotate(u, u.parent[u.parent[xr]])
    IN  IF t.color[p] = "RED" THEN
            IF p = t.left[g] THEN
                IF t.color[t.right[g]] = "RED"
                THEN insert_fix_up_loop(recolour(t.right[g]), g)
                ELSE insert_fix_up_loop(l4(l3(l2(l1(t)))), xl)
            ELSE
                IF t.color[t.left[g]] = "RED"
                THEN insert_fix_up_loop(recolour(t.left[g]), g)
                ELSE insert_fix_up_loop(r4(r3(r2(r1(t)))), xr)
        ELSE t

\* Variant of insert_fix_up: the final root_->color = BLACK is missing.
insert_fix_up_rootKept(t, x) == insert_fix_up_loop(t, x)

insert_fix_up(t, x) ==
    LET s1(u) == insert_fix_up_loop(u, x)
        s2(u) == [u EXCEPT !.color[u.root] = "BLACK"]
    IN  s2(s1(t))

\* The descent of Set::insert: the parent y under which value belongs, or
\* dup = TRUE when a node already holds value (the early return).
RECURSIVE insertDescend(_, _, _, _)
insertDescend(t, x, y, value) ==
    IF x # terminal_ THEN
        IF value < t.data[x] THEN insertDescend(t, t.left[x], x, value)
        ELSE IF t.data[x] < value THEN insertDescend(t, t.right[x], x, value)
        ELSE [dup |-> TRUE, y |-> x]
    ELSE [dup |-> FALSE, y |-> y]

\* `new Node` returns a cell that is not allocated: the cell numbered like
\* the payload (see the note on addresses at the top).
newAddr(t, value) == value

\* Variant of linkChild: the comparison of line 314 is reversed.
linkChild_reversed(t, y, z, value) ==
    IF y = terminal_ THEN [t EXCEPT !.root = z]
    ELSE IF t.data[y] < value THEN [t EXCEPT !.left[y] = z]
    ELSE [t EXCEPT !.right[y] = z]

\* Lines 312-318 of Set::insert: hang z under y.
linkChild(t, y, z, value) ==
    IF y = terminal_ THEN [t EXCEPT !.root = z]
    ELSE IF value < t.data[y] THEN [t EXCEPT !.left[y] = z]
    ELSE [t EXCEPT !.right[y] = z]

\* Lines 303-321 of Set::insert: allocate z under y, update the cached bounds,
\* link, count, repair.
insertNew(t, y, value) ==
    LET z == newAddr(t, value)
        s1(u) == [u EXCEPT !.heap = @ \cup {z},
                           !.data[z] = value, !.color[z] = "RED",
                           !.left[z] = terminal_, !.right[z] = terminal_,
                           !.parent[z] = y]
        s2(u) == IF u.head = terminal_ \/ value < u.data[u.head]
                 THEN [u EXCEPT !.head = z] ELSE u
        s3(u) == IF u.tail = terminal_ \/ u.data[u.tail] < value
                 THEN [u EXCEPT !.tail = z] ELSE u
        s4(u) == linkChild(u, y, z, value)
        s5(u) == [u EXCEPT !.size = @ + 1]
        s6(u) == insert_fix_up(u, z)
    IN  s6(s5(s4(s3(s2(s1(t))))))

\* Variant of insert: ++size_ also runs when the value is already stored.
insert_countsDuplicate(t, value) ==
    LET d == insertDescend(t, t.root, terminal_, value)
    IN  IF d.dup THEN [t EXCEPT !.size = @ + 1] ELSE insertNew(t, d.y, value)

insert(t, value) ==
    LET d == insertDescend(t, t.root, terminal_, value)
    IN  IF d.dup THEN t ELSE insertNew(t, d.y, value)

\* ---- lookup ----------------------------------------------------------------
\* Variant of findFrom: the branch to the right child is missing.
RECURSIVE findFrom_noRight(_, _, _)
findFrom_noRight(t, current, value) ==
    IF current # terminal_ THEN
        IF value < t.data[current] THEN findFrom_noRight(t, t.left[current], value)
        ELSE current
    ELSE current

RECURSIVE findFrom(_, _, _)
findFrom(t, current, value) ==
    IF current # terminal_ THEN
        IF value < t.data[current] THEN findFrom(t, t.left[current], value)
        ELSE IF t.data[current] < value THEN findFrom(t, t.right[current], value)
        ELSE current
    ELSE current

find(t, value) == findFrom(t, t.root, value)

\* Variant of lowerFrom: the candidate is not recorded on the way left.
RECURSIVE lowerFrom_noCandidate(_, _, _, _)
lowerFrom_noCandidate(t, current, res, value) ==
    IF current # terminal_ THEN
        IF t.data[current] < value
        THEN lowerFrom_noCandidate(t, t.right[current], res, value)
        ELSE IF value < t.data[current]
        THEN lowerFrom_noCandidate(t, t.left[current], res, value)
        ELSE current
    ELSE res

RECURSIVE lowerFrom(_, _, _, _)
lowerFrom(t, current, res, value) ==
    IF current # terminal_ THEN
        IF t.data[current] < value THEN lowerFrom(t, t.right[current], res, value)
        ELSE IF value < t.data[current] THEN
            lowerFrom(t, t.left[current],
                      IF res = terminal_ \/ t.data[current] < t.data[res]
                      THEN current ELSE res,
                      value)
        ELSE current
    ELSE res

lower_bound(t, value) == lowerFrom(t, t.root, terminal_, value)

\* ---- erasure ---------------------------------------------------------------
\* In the loop body the local w always equals x->parent->right (x->parent->left
\* in the mirrored branch) of the current tree: it is initialised to it and
\* re-read after each rotation, and nothing else moves it.
RECURSIVE erase_fix_up_loop(_, _)
erase_fix_up_loop(t_, x_) ==
    LET run(t, x) ==
        LET \* x = root_ ends the loop
            fromRoot(u) == erase_fix_up_loop(u, u.root)
            \* x is a left child
            wl(u) == u.right[u.parent[x]]
            l1(u) == IF u.color[wl(u)] = "RED"
                     THEN left_rotate([u EXCEPT !.color[wl(u)] = "BLACK",
                                                !.color[u.parent[x]] = "RED"],
                                      u.parent[x])
                     ELSE u
            l3(u) == IF u.color[u.right[wl(u)]] = "BLACK"
                     THEN right_rotate([u EXCEPT !.color[u.left[wl(u)]] = "BLACK",
                                                 !.color[wl(u)] = "RED"], wl(u))
                     ELSE u
            l4(u) == left_rotate([u EXCEPT !.color[wl(u)] = u.color[u.parent[x]],
                                           !.color[u.parent[x]] = "BLACK",
                                           !.color[u.right[wl(u)]] = "BLACK"],
                                 u.parent[x])
            l2(u) == IF u.color[u.left[wl(u)]] = "BLACK" /\ u.color[u.right[wl(u)]] = "BLACK"
                     THEN erase_fix_up_loop([u EXCEPT !.color[wl(u)] = "RED"], u.parent[x])
                     ELSE fromRoot(l4(l3(u)))
            \* x is a right child
            wr(u) == u.left[u.parent[x]]
            r1(u) == IF u.color[wr(u)] = "RED"
                     THEN right_rotate([u EXCEPT !.color[wr(u)] = "BLACK",
                                                 !.color[u.parent[x]] = "RED"],
                                       u.parent[x])
                     ELSE u
            r3(u) == IF u.color[u.left[wr(u)]] = "BLACK"
                     THEN left_rotate([u EXCEPT !.color[u.right[wr(u)]] = "BLACK",
                                                !.color[wr(u)] = "RED"], wr(u))
                     ELSE u
            r4(u) == right_rotate([u EXCEPT !.color[wr(u)] = u.color[u.parent[x]],
                                            !.color[u.parent[x]] = "BLACK",
                                            !.color[u.left[wr(u)]] = "BLACK"],
                                  u.parent[x])
            r2(u) == IF u.color[u.right[wr(u)]] = "BLACK" /\ u.color[u.left[wr(u)]] = "BLACK"
                     THEN erase_fix_up_loop([u EXCEPT !.color[wr(u)] = "RED"], u.parent[x])
                     ELSE fromRoot(r4(r3(u)))
        IN  IF x # t.root /\ t.color[x] = "BLACK" THEN
                IF x = t.left[t.parent[x]] THEN l2(l1(t)) ELSE r2(r1(t))
            ELSE [t EXCEPT !.color[x] = "BLACK"]
    IN  Only({run(t, x) : t \in {t_}, x \in {x_}})

\* Variant of erase_fix_up: the loop is skipped, only x is blackened.
erase_fix_up_noLoop(t, x) == [t EXCEPT !.color[x] = "BLACK"]

erase_fix_up(t, x) == erase_fix_up_loop(t, x)

\* `delete(z)`: the cell returns to the allocator; what it held is no longer
\* part of the program's state.
deleteNode(t, z) ==
    [t EXCEPT !.heap = @ \ {z},
              !.data[z] = NoData, !.color[z] = "BLACK",
              !.left[z] = terminal_, !.right[z] = terminal_, !.parent[z] = terminal_]

\* Variant of eraseTwoChildren: y->left = z->left is missing.
eraseTwoChildren_leftLost(t, z) ==
    LET y == minimum(t, t.right[z])
        x == t.right[y]
        reattach(u) == [u EXCEPT !.right[y] = u.right[z], !.parent[u.right[z]] = y]
        s1(u) == IF u.parent[y] = z THEN [u EXCEPT !.parent[x] = y]
                 ELSE reattach(transplant(u, y, u.right[y]))
        s2(u) == transplant(u, z, y)
        s3(u) == [u EXCEPT !.parent[u.left[y]] = y, !.color[y] = u.color[z]]
    IN  s3(s2(s1(t)))

\* Lines 350-364 of Set::erase: z has two children; its successor y is moved
\* into its place.
eraseTwoChildren(t, z) ==
    LET y == minimum(t, t.right[z])
        x == t.right[y]
        reattach(u) == [u EXCEPT !.right[y] = u.right[z], !.parent[u.right[z]] = y]
        s1(u) == IF u.parent[y] = z THEN [u EXCEPT !.parent[x] = y]
                 ELSE reattach(transplant(u, y, u.right[y]))
        s2(u) == transplant(u, z, y)
        s3(u) == [u EXCEPT !.left[y] = u.left[z], !.parent[u.left[z]] = y,
                           !.color[y] = u.color[z]]
    IN  s3(s2(s1(t)))

\* Lines 340-365 of Set::erase: unlink z; yields the tree, the node x that
\* took the place of the spliced-out position and that position's colour.
eraseUnlink(t_, z_) ==
    LET run(t, z) ==
        IF t.left[z] = terminal_ THEN
            [t |-> transplant(t, z, t.right[z]), x |-> t.right[z],
             original_color |-> t.color[z]]
        ELSE IF t.right[z] = terminal_ THEN
            [t |-> transplant(t, z, t.left[z]), x |-> t.left[z],
             original_color |-> t.color[z]]
        ELSE
            [t |-> eraseTwoChildren(t, z), x |-> t.right[minimum(t, t.right[z])],
             original_color |-> t.color[minimum(t, t.right[z])]]
    IN  Only({run(t, z) : t \in {t_}, z \in {z_}})

\* Variant of eraseNode: --size_ is missing.
eraseNode_noDecrement(t, z) ==
    LET s1(u) == IF u.head = z THEN [u EXCEPT !.head = next(u, u.head)] ELSE u
        s2(u) == IF u.tail = z THEN [u EXCEPT !.tail = prev(u, u.tail)] ELSE u
        repair(r) == IF r.original_color = "BLACK" THEN erase_fix_up(r.t, r.x) ELSE r.t
        s3(u) == repair(eraseUnlink(u, z))
        s5(u) == deleteNode(u, z)
    IN  s5(s3(s2(s1(t))))

\* Variant of eraseNode: head_ is not advanced when the minimum is erased.
eraseNode_headKept(t, z) ==
    LET s2(u) == IF u.tail = z THEN [u EXCEPT !.tail = prev(u, u.tail)] ELSE u
        repair(r) == IF r.original_color = "BLACK" THEN erase_fix_up(r.t, r.x) ELSE r.t
        s3(u) == repair(eraseUnlink(u, z))
        s4(u) == [u EXCEPT !.size = @ - 1]
        s5(u) == deleteNode(u, z)
    IN  s5(s4(s3(s2(t))))

\* Lines 331-372 of Set::erase(iterator): remove the node z.
eraseNode(t, z) ==
    LET s1(u) == IF u.head = z THEN [u EXCEPT !.head = next(u, u.head)] ELSE u
        s2(u) == IF u.tail = z THEN [u EXCEPT !.tail = prev(u, u.tail)] ELSE u
        repair(r) == IF r.original_color = "BLACK" THEN erase_fix_up(r.t, r.x) ELSE r.t
        s3(u) == repair(eraseUnlink(u, z))
        s4(u) == [u EXCEPT !.size = @ - 1]
        s5(u) == deleteNode(u, z)
    IN  s5(s4(s3(s2(s1(t)))))

\* Set::erase(iterator); old_node is the cursor's current node.
erase(t, old_node) ==
    IF old_node = terminal_ THEN t ELSE eraseNode(t, old_node)

\* Lines 344-350: does erasing old_node take the branch that moves its
\* successor into its place?
hasTwoChildren(t, old_node) ==
    old_node # terminal_ /\ t.left[old_node] # terminal_ /\ t.right[old_node] # terminal_

\* Line 367: does erasing old_node run erase_fix_up?
ranFixUp(t, old_node) ==
    old_node # terminal_ /\ eraseUnlink(t, old_node).original_color = "BLACK"

\* Variant of erase(value): the node is looked up with lower_bound.
erase_value_lowerBound(t, value) == erase(t, lower_bound(t, value))

\* Set::erase(const ValueType&)
erase_value(t, value) == erase(t, find(t, value))

empty(t) == t.size = 0

\* ---- cursors ----------------------------------------------------------------
\* A cursor of this set is the address of its current node.
\* Variant of begin: the past-the-end cursor is returned.
begin_pastTheEnd(t) == terminal_

begin(t) == t.head

end(t) == terminal_

\* SetIterator::operator++
increment(t, c) == next(t, c)

\* Variant of decrement: the end() case is missing.
decrement_noEndCase(t, c) == prev(t, c)

\* SetIterator::operator--
decrement(t, c) == IF c = terminal_ THEN t.tail ELSE prev(t, c)

\* ---- lifetime ---------------------------------------------------------------
\* No Set has been move-constructed from this one.
NoTarget ==
    [built |-> FALSE, terminal |-> terminal_, root |-> terminal_, size |-> 0,
     head |-> terminal_, tail |-> terminal_]

\* The set is alive and has not been moved from: the calls below are allowed.
Usable == pc = "live" /\ ~target.built

\* ---- the calls a client makes ------------------------------------------------
Init ==
    /\ data = EmptySet.data
    /\ color = EmptySet.color
    /\ left = EmptySet.left
    /\ right = EmptySet.right
    /\ parent = EmptySet.parent
    /\ root_ = EmptySet.root
    /\ size_ = EmptySet.size
    /\ head_ = EmptySet.head
    /\ tail_ = EmptySet.tail
    /\ heap = EmptySet.heap
    /\ op = "Set"
    /\ arg = 0
    /\ ret = terminal_
    /\ abs = {}
    /\ hit = FALSE
    /\ fixup = FALSE
    /\ relinked = FALSE
    /\ pc = "live"
    /\ target = NoTarget
    /\ log = <<>>
    /\ size0 = 0

\* s.insert(v)
Insert(v) ==
    /\ Usable
    /\ Install(insert(Tree, v))
    /\ op' = "insert" /\ arg' = v /\ ret' = terminal_
    /\ abs' = abs \cup {v}
    /\ hit' = (v \in abs)
    /\ fixup' = FALSE
    /\ relinked' = FALSE
    /\ UNCHANGED lifeVars

\* s.insert(v); s.insert(v)
InsertTwice(v) ==
    /\ Usable
    /\ Install(insert(insert(Tree, v), v))
    /\ op' = "insert_twice" /\ arg' = v /\ ret' = terminal_
    /\ abs' = abs \cup {v}
    /\ hit' = (v \in abs)
    /\ fixup' = FALSE
    /\ relinked' = FALSE
    /\ UNCHANGED lifeVars

\* s.erase(v)
Erase(v) ==
    /\ Usable
    /\ Install(erase_value(Tree, v))
    /\ op' = "erase" /\ arg' = v /\ ret' = terminal_
    /\ abs' = abs \ {v}
    /\ hit' = (v \in abs)
    /\ fixup' = ranFixUp(Tree, find(Tree, v))
    /\ relinked' = hasTwoChildren(Tree, find(Tree, v))
    /\ UNCHANGED lifeVars

\* s.erase(it) for a cursor it on a node of the set, or it == s.end()
EraseIt(c) ==
    /\ Usable
    /\ c \in heap
    /\ Install(erase(Tree, c))
    /\ op' = "erase_it" /\ arg' = c /\ ret' = terminal_
    /\ abs' = IF c = terminal_ THEN abs ELSE abs \ {data[c]}
    /\ hit' = (c # terminal_)
    /\ fixup' = ranFixUp(Tree, c)
    /\ relinked' = hasTwoChildren(Tree, c)
    /\ UNCHANGED lifeVars

\* it = s.find(v)
Find(v) ==
    /\ Usable
    /\ Install(Tree)
    /\ op' = "find" /\ arg' = v /\ ret' = find(Tree, v)
    /\ abs' = abs
    /\ hit' = (v \in abs)
    /\ fixup' = FALSE
    /\ relinked' = FALSE
    /\ UNCHANGED lifeVars

\* it = s.lower_bound(v)
LowerBound(v) ==
    /\ Usable
    /\ Install(Tree)
    /\ op' = "lower_bound" /\ arg' = v /\ ret' = lower_bound(Tree, v)
    /\ abs' = abs
    /\ hit' = (v \in abs)
    /\ fixup' = FALSE
    /\ relinked' = FALSE
    /\ UNCHANGED lifeVars

\* ++it for a cursor it on a node of the set
Increment(c) ==
    /\ Usable
    /\ c \in heap \ {terminal_}
    /\ Install(Tree)
    /\ op' = "increment" /\ arg' = c /\ ret' = increment(Tree, c)
    /\ abs' = abs
    /\ hit' = TRUE
    /\ fixup' = FALSE
    /\ relinked' = FALSE
    /\ UNCHANGED lifeVars

\* --it for a cursor it on a node of the set, or it == s.end()
Decrement(c) ==
    /\ Usable
    /\ c \in heap
    /\ Install(Tree)
    /\ op' = "decrement" /\ arg' = c /\ ret' = decrement(Tree, c)
    /\ abs' = abs
    /\ hit' = (c # terminal_)
    /\ fixup' = FALSE
    /\ relinked' = FALSE
    /\ UNCHANGED lifeVars

Next ==
    \/ \E v \in Val : Insert(v)
    \/ \E v \in Val : InsertTwice(v)
    \/ \E v \in Val : Erase(v)
    \/ \E c \in Addr : EraseIt(c)
    \/ \E v \in Val : Find(v)
    \/ \E v \in Val : LowerBound(v)
    \/ \E c \in Addr : Increment(c)
    \/ \E c \in Addr : Decrement(c)

Spec == Init /\ [][Next]_vars

\* The calls that change the set, without the lookups and the cursor steps.
NextUpdate ==
    \/ \E v \in Val : Insert(v)
    \/ \E v \in Val : InsertTwice(v)
    \/ \E v \in Val : Erase(v)
    \/ \E c \in Addr : EraseIt(c)

SpecUpdate == Init /\ [][NextUpdate]_vars

\* ---- move construction and destruction ----------------------------------------
\* Set t(std::move(s)): t's members are initialised from s's; s's members are
\* raw pointers and a size_t, which std::move leaves as they are.
MoveConstruct ==
    /\ Usable
    /\ target' = [built |-> TRUE, terminal |-> terminal_, root |-> root_,
                  size |-> size_, head |-> head_, tail |-> tail_]
    /\ Install(Tree)
    /\ op' = "move" /\ arg' = 0 /\ ret' = terminal_
    /\ abs' = abs
    /\ hit' = FALSE
    /\ fixup' = FALSE
    /\ relinked' = FALSE
    /\ UNCHANGED <<pc, log, size0>>

\* s.~Set() is entered
Destroy ==
    /\ pc = "live"
    /\ pc' = "loop"
    /\ size0' = size_
    /\ log' = <<>>
    /\ Install(Tree)
    /\ op' = "~Set" /\ arg' = 0 /\ ret' = terminal_
    /\ abs' = abs
    /\ hit' = FALSE
    /\ fixup' = FALSE
    /\ relinked' = FALSE
    /\ UNCHANGED target

\* One turn of the loop of ~Set: erase(begin())
DtorErase ==
    /\ pc = "loop"
    /\ ~empty(Tree)
    /\ \E t \in {erase(Tree, begin(Tree))} : Install(t)
    /\ log' = IF begin(Tree) = terminal_ THEN log ELSE Append(log, begin(Tree))
    /\ op' = "~Set" /\ arg' = begin(Tree) /\ ret' = terminal_
    /\ abs' = IF begin(Tree) = terminal_ THEN abs ELSE abs \ {data[begin(Tree)]}
    /\ hit' = (begin(Tree) # terminal_)
    /\ fixup' = ranFixUp(Tree, begin(Tree))
    /\ relinked' = hasTwoChildren(Tree, begin(Tree))
    /\ UNCHANGED <<pc, target, size0>>

\* The loop of ~Set has ended: delete(terminal_)
DtorDelete ==
    /\ pc = "loop"
    /\ empty(Tree)
    /\ Install([Tree EXCEPT !.heap = @ \ {terminal_}])
    /\ log' = Append(log, terminal_)
    /\ pc' = "dead"
    /\ op' = "~Set" /\ arg' = terminal_ /\ ret' = terminal_
    /\ abs' = abs
    /\ hit' = FALSE
    /\ fixup' = FALSE
    /\ relinked' = FALSE
    /\ UNCHANGED <<target, size0>>

NextLifetime ==
    \/ \E v \in Val : Insert(v)
    \/ \E v \in Val : Erase(v)
    \/ MoveConstruct
    \/ Destroy
    \/ DtorErase
    \/ DtorDelete

\* ~Set is sequential code: once entered, its loop and its final delete run.
SpecLifetime ==
    Init /\ [][NextLifetime]_vars /\ WF_vars(DtorErase) /\ WF_vars(DtorDelete)

\* ---- what the checks observe --------------------------------------------------
\* Nodes of the subtree rooted at n, following left/right at most d levels
\* (d = MaxNodes + 1 covers every tree the heap can hold).
RECURSIVE Subtree(_, _, _)
Subtree(t, n, d) ==
    IF n = terminal_ \/ d = 0 THEN {}
    ELSE {n} \cup Subtree(t, t.left[n], d - 1) \cup Subtree(t, t.right[n], d - 1)

Depth == MaxNodes + 1
Nodes(t) == Subtree(t, t.root, Depth)
Stored(t) == {t.data[n] : n \in Nodes(t)}

\* Number of BLACK nodes on every path from n down to the sentinel, n not
\* counted; -1 when two paths disagree (or a path is longer than d).
RECURSIVE BlackHeight(_, _, _)
BlackHeight(t, n, d) ==
    IF n = terminal_ THEN 0
    ELSE IF d = 0 THEN -1
    ELSE LET l  == BlackHeight(t, t.left[n], d - 1)
             r  == BlackHeight(t, t.right[n], d - 1)
             bl == IF t.color[t.left[n]] = "BLACK" THEN 1 ELSE 0
             br == IF t.color[t.right[n]] = "BLACK" THEN 1 ELSE 0
         IN  IF l = -1 \/ r = -1 \/ l + bl # r + br THEN -1 ELSE l + bl

\* for (it = begin(); it != end(); ++it) collect *it -- at most d steps.
RECURSIVE Iterate(_, _, _)
Iterate(t, c, d) ==
    IF c = terminal_ \/ d = 0 THEN <<>>
    ELSE <<t.data[c]>> \o Iterate(t, next(t, c), d - 1)

Walk(t) == Iterate(t, t.head, Depth)

RECURSIVE SortedSeq(_)
SortedSeq(S) ==
    IF S = {} THEN <<>>
    ELSE LET m == CHOOSE x \in S : \A y \in S : x <= y
         IN  <<m>> \o SortedSeq(S \ {m})

\* ---- C1 ------------------------------------------------------------------------
\* C1: after any sequence of insert and erase calls, every payload in the left
\* subtree of a node is less than the node's payload and every payload in its
\* right subtree is greater.
C1_BstProperty ==
    \A n \in Nodes(Tree) :
        /\ \A m \in Subtree(Tree, left[n], Depth) : data[m] < data[n]
        /\ \A m \in Subtree(Tree, right[n], Depth) : data[n] < data[m]

\* An erase has just removed a node from a tree that still has nodes on both
\* sides of its root and a grandchild.
C1_Witness ==
    /\ op = "erase" /\ hit
    /\ left[root_] # terminal_ /\ right[root_] # terminal_
    /\ \E n \in Nodes(Tree) : n # root_ /\ parent[n] # root_

\* ---- C2 ------------------------------------------------------------------------
\* C2: after any sequence of insert and erase calls the root is BLACK, the
\* sentinel is BLACK and no RED node has a RED child.
C2_ColourInvariants ==
    /\ color[root_] = "BLACK"
    /\ color[terminal_] = "BLACK"
    /\ \A n \in Nodes(Tree) :
           color[n] = "RED" =>
               color[left[n]] # "RED" /\ color[right[n]] # "RED"

\* An insert has just added a node and left a RED node below the root.
C2_Witness ==
    /\ op = "insert" /\ ~hit
    /\ size_ >= 4
    /\ \E n \in Nodes(Tree) : color[n] = "RED"

\* ---- C3 ------------------------------------------------------------------------
\* C3: after any sequence of insert and erase calls, all downward paths from a
\* node to the sentinel hold the same number of BLACK nodes.
C3_BlackHeightUniform ==
    \A n \in Nodes(Tree) : BlackHeight(Tree, n, Depth) # -1

\* An erase has just removed a BLACK position from a six-node tree and ran
\* erase_fix_up.
C3_Witness ==
    /\ op \in {"erase", "erase_it"} /\ hit /\ fixup
    /\ size_ = 5

\* ---- C4 ------------------------------------------------------------------------
\* C4: walking from begin() with ++ until end() yields exactly the elements of
\* the mathematical set built by the same calls, each once, in increasing order.
C4_WalkIsSortedSet == Walk(Tree) = SortedSeq(abs)

\* An erase has removed an element and at least four remain to be walked.
C4_Witness ==
    /\ op = "erase" /\ hit
    /\ Len(Walk(Tree)) >= 4
    /\ Cardinality(abs) >= 4

\* ---- C5 ------------------------------------------------------------------------
\* C5 as stated: after insert(v); insert(v) the size has grown by exactly 1,
\* for every v.
C5_AsStated == [][op' = "insert_twice" => size_' = size_ + 1]_vars

\* C5 (amended): after insert(v); insert(v) the size has grown by exactly 1
\* when v was not stored before the first insert, and is unchanged when it was.
C5_InsertTwiceSize ==
    [][op' = "insert_twice" =>
          size_' = size_ + (IF arg' \in Stored(Tree) THEN 0 ELSE 1)]_vars

\* insert(v); insert(v) has just run for a v that was not stored, on a set
\* that already held other elements.
C5_Witness == op = "insert_twice" /\ ~hit /\ size_ >= 3

\* ---- C6 ------------------------------------------------------------------------
\* C6: insert of a stored value, erase of a value that is not stored and
\* erase(end()) leave every field of the Set and of its nodes as it was, and
\* allocate and free nothing.
C6_NoOpFrame ==
    [][(\/ op' = "insert" /\ arg' \in Stored(Tree)
        \/ op' = "erase" /\ arg' \notin Stored(Tree)
        \/ op' = "erase_it" /\ arg' = terminal_)
       => UNCHANGED treeVars]_vars

\* A value that is not stored has just been erased from a set of at least
\* three elements.
C6_Witness == op = "erase" /\ ~hit /\ size_ >= 3

\* ---- C7 ------------------------------------------------------------------------
\* C7: size() is the number of nodes reachable from the root and the number of
\* distinct stored values; empty() holds exactly when that number is 0, which
\* is exactly when root_ is the sentinel and exactly when begin() == end().
C7_SizeCountsNodes ==
    /\ size_ = Cardinality(Nodes(Tree))
    /\ size_ = Cardinality(Stored(Tree))
    /\ empty(Tree) <=> Cardinality(Nodes(Tree)) = 0
    /\ empty(Tree) <=> root_ = terminal_
    /\ empty(Tree) <=> head_ = terminal_

\* The last element has just been erased: the set is empty again.
C7_Witness == op \in {"erase", "erase_it"} /\ hit /\ empty(Tree) /\ root_ = terminal_

\* ---- C8 ------------------------------------------------------------------------
\* The node holding the smallest element of S that is >= v in tree t, the
\* sentinel when there is none.
LeastAtLeast(t, S, v) ==
    IF \E x \in S : v <= x
    THEN LET m == CHOOSE x \in S : v <= x /\ \A y \in S : v <= y => x <= y
         IN  CHOOSE n \in Nodes(t) : t.data[n] = m
    ELSE terminal_

\* values a client looks up: the stored range and one value on either side
Probe == 0..(MaxVal + 1)

\* C8: lower_bound(v) is a cursor on the node holding the smallest stored
\* element >= v, and end() when every stored element is less than v.
C8_LowerBound ==
    /\ \A v \in Probe :
           /\ (\E x \in abs : v <= x) => lower_bound(Tree, v) \in Nodes(Tree)
           /\ lower_bound(Tree, v) = LeastAtLeast(Tree, abs, v)
    /\ op = "lower_bound" => ret = LeastAtLeast(Tree, abs, arg)

\* lower_bound(v) has just returned a node holding a larger element, for a v
\* that is not stored and lies between stored elements.
C8_Witness ==
    /\ op = "lower_bound" /\ ~hit
    /\ ret # terminal_ /\ arg < data[ret]
    /\ \E x \in abs : x < arg

\* ---- C9 ------------------------------------------------------------------------
\* C9 as stated: find(v) == lower_bound(v) if and only if v is stored.
C9_AsStated ==
    \A v \in Val : (find(Tree, v) = lower_bound(Tree, v)) <=> v \in abs

\* C9 (amended): find(v) == lower_bound(v) if and only if v is stored or no
\* stored element is >= v (both cursors are then end()).
C9_FindEqualsLowerBound ==
    \A v \in Probe :
        (find(Tree, v) = lower_bound(Tree, v))
            <=> (v \in abs \/ \A x \in abs : x < v)

\* find(v) has just returned end() for a v above every stored element, where
\* lower_bound(v) is end() too.
C9_Witness ==
    /\ op = "find" /\ ~hit /\ ret = terminal_
    /\ lower_bound(Tree, arg) = terminal_
    /\ Cardinality(abs) >= 3

\* ---- C10 -----------------------------------------------------------------------
C10_FindResult ==
    /\ \A v \in Probe :
           IF v \in abs
           THEN /\ find(Tree, v) \in Nodes(Tree)
                /\ data[find(Tree, v)] = v
                /\ Cardinality({n \in Nodes(Tree) : data[n] = v}) = 1
           ELSE find(Tree, v) = terminal_
    /\ op = "find" => ret = find(Tree, arg)

\* C10: find(v) is a cursor on the one node holding v when v is stored and
\* end() when it is not, and a call of find changes nothing in the tree.
C10_Find ==
    /\ []C10_FindResult
    /\ [][op' = "find" => UNCHANGED treeVars]_vars

\* find(v) has just returned a node below the root that holds v.
C10_Witness ==
    /\ op = "find" /\ hit
    /\ ret # terminal_ /\ ret # root_ /\ data[ret] = arg

\* ---- C11 -----------------------------------------------------------------------
\* The node of t holding payload v (payloads are distinct, see C7).
NodeOf(t, v) == CHOOSE n \in Nodes(t) : t.data[n] = v

MinOf(S) == CHOOSE x \in S : \A y \in S : x <= y
MaxOf(S) == CHOOSE x \in S : \A y \in S : y <= x

\* C11: head_ is the node holding the minimum stored element and tail_ the
\* node holding the maximum, each the sentinel exactly when the set is empty;
\* so begin() is on the minimum and --end() on the maximum.
C11_CachedBounds ==
    /\ head_ = terminal_ <=> abs = {}
    /\ tail_ = terminal_ <=> abs = {}
    /\ abs # {} =>
           /\ head_ \in Nodes(Tree) /\ data[head_] = MinOf(abs)
           /\ tail_ \in Nodes(Tree) /\ data[tail_] = MaxOf(abs)
           /\ begin(Tree) = NodeOf(Tree, MinOf(abs))
           /\ decrement(Tree, end(Tree)) = NodeOf(Tree, MaxOf(abs))

\* The minimum has just been erased from a set that keeps at least three
\* elements: begin() had to move to the next-smallest one.
C11_Witness ==
    /\ op = "erase" /\ hit
    /\ size_ >= 3
    /\ \A x \in abs : arg < x

\* ---- C12 -----------------------------------------------------------------------
\* C12: for every cursor on a node of the set other than begin(), advancing
\* and then retreating comes back to the same node: --(++it) == it.
C12_AdvanceRetreat ==
    \A c \in Nodes(Tree) \ {begin(Tree)} :
        decrement(Tree, increment(Tree, c)) = c

\* --it has just been applied to end() and arrived, through tail_, on a node
\* that is not begin() and whose ++ is end(); another node lies in between.
C12_Witness ==
    /\ op = "decrement" /\ arg = terminal_
    /\ ret = tail_ /\ ret # begin(Tree) /\ ret \in Nodes(Tree)
    /\ increment(Tree, ret) = end(Tree)
    /\ size_ >= 3

\* ---- C13 -----------------------------------------------------------------------
\* The node a step erases, before being the nodes of the tree it starts
\* from: the one holding the erased value, or the cursor's;
\* the sentinel when the step erases nothing.
Victim(before) ==
    IF op' = "erase" /\ (\E n \in before : data[n] = arg')
    THEN CHOOSE n \in before : data[n] = arg'
    ELSE IF op' = "erase_it" THEN arg'
    ELSE terminal_

\* Every other node stays in the tree, in its cell, with its payload; an erase
\* frees the victim's cell and no other, an insert frees none.
NodesSurvive ==
    op' \in {"insert", "insert_twice", "erase", "erase_it"} =>
        \A before \in {Nodes(Tree)}, after \in {Nodes(Tree')} : \A z \in {Victim(before)} :
            /\ \A n \in before \ {z} :
                   n \in after /\ n \in heap' /\ data'[n] = data[n]
            /\ op' \in {"erase", "erase_it"} =>
                   heap' = IF z = terminal_ THEN heap ELSE heap \ {z}
            /\ op' \in {"insert", "insert_twice"} => heap \subseteq heap'

\* A cursor on any node steps to the in-order neighbours of its payload.
StepsToNeighbours ==
    \A n \in Nodes(Tree) :
        /\ increment(Tree, n) = LeastAtLeast(Tree, abs, data[n] + 1)
        /\ decrement(Tree, n) =
               IF \E x \in abs : x < data[n]
               THEN NodeOf(Tree, MaxOf({x \in abs : x < data[n]}))
               ELSE terminal_

\* Unlinking a node z with two children puts its successor y where z was,
\* with z's colour and children, and writes no payload.
SuccessorRelinked ==
    \A z \in Nodes(Tree) :
        hasTwoChildren(Tree, z) =>
            \A y \in {minimum(Tree, right[z])}, u \in {eraseTwoChildren(Tree, z)} :
                /\ u.data = data
                /\ u.color[y] = color[z]
                /\ u.parent[y] = parent[z]
                /\ u.left[y] = left[z]
                /\ u.right[y] = (IF y = right[z] THEN right[y] ELSE right[z])
                /\ IF z = root_ THEN u.root = y
                   ELSE y \in {u.left[parent[z]], u.right[parent[z]]}

\* C13: an insert, and an erase of another node, leave every node of the tree
\* in the tree with its identity and payload, so a cursor on it still
\* dereferences to the same value and steps to its in-order neighbours; an
\* erase frees exactly the node holding the erased value, and when that node
\* has two children its successor is relinked into its place with its colour.
C13_CursorStability ==
    /\ [](StepsToNeighbours /\ SuccessorRelinked)
    /\ [][NodesSurvive]_vars

\* A node with two children has just been erased and its successor moved
\* into its place; at least four nodes remain.
C13_Witness == op = "erase" /\ hit /\ relinked /\ size_ >= 4

\* ---- C15 -----------------------------------------------------------------------
\* C15 as stated: after every insert and erase the sentinel's left, right and
\* parent links all point to the sentinel itself.
C15_AsStated ==
    /\ left[terminal_] = terminal_
    /\ right[terminal_] = terminal_
    /\ parent[terminal_] = terminal_

\* C15 (amended): after every insert and erase the sentinel's left and right
\* links point to the sentinel itself; its parent link does so after
\* construction and is left as it is by every call except an erase that
\* removes a node, which may set it to another node.
C15_SentinelLinks ==
    /\ [](left[terminal_] = terminal_ /\ right[terminal_] = terminal_)
    /\ [][~(op' \in {"erase", "erase_it"} /\ hit')
              => parent'[terminal_] = parent[terminal_]]_vars

\* An insert has just added a node to a set whose sentinel's parent link an
\* earlier erase had set to a node; the insert left it there.
C15_Witness ==
    /\ op = "insert" /\ ~hit
    /\ parent[terminal_] # terminal_
    /\ left[terminal_] = terminal_ /\ right[terminal_] = terminal_

\* ---- C17 -----------------------------------------------------------------------
\* Number of left/right paths of at most d links from m down to n.
RECURSIVE PathCount(_, _, _, _)
PathCount(t, m, n, d) ==
    IF m = terminal_ \/ d = 0 THEN 0
    ELSE (IF m = n THEN 1 ELSE 0)
         + PathCount(t, t.left[m], n, d - 1)
         + PathCount(t, t.right[m], n, d - 1)

\* C17: the root's parent is the sentinel, every child's parent link points
\* back at the node whose left or right link holds it, and every allocated
\* node is reached from the root by exactly one path.
C17_LinkConsistency ==
    /\ parent[root_] = terminal_
    /\ \A n \in heap \ {terminal_} :
           /\ left[n] # terminal_ => parent[left[n]] = n
           /\ right[n] # terminal_ => parent[right[n]] = n
           /\ PathCount(Tree, root_, n, Depth) = 1

\* An erase has just moved a successor into the erased node's place and run
\* erase_fix_up; at least four nodes remain linked.
C17_Witness ==
    /\ op \in {"erase", "erase_it"} /\ hit /\ relinked /\ fixup
    /\ Cardinality(heap \ {terminal_}) >= 4

\* ---- C18 -----------------------------------------------------------------------
\* The links of the nodes of the set, the sentinel's parent link aside.
NodeLinks ==
    {left[n] : n \in heap} \cup {right[n] : n \in heap}
        \cup {parent[n] : n \in heap \ {terminal_}}

\* C18 as stated: no pointer held by the Set -- root_, head_, tail_, a node's
\* left, right or parent, or the sentinel's left, right or parent -- refers to
\* a cell that has been freed.
C18_AsStated ==
    {root_, head_, tail_, parent[terminal_]} \cup NodeLinks \subseteq heap

\* C18 (amended): after any sequence of insert and erase calls, root_, head_,
\* tail_, every node's left, right and parent, and the sentinel's left and
\* right refer to cells that are still allocated; only the sentinel's parent,
\* which no lookup or cursor step of a valid cursor reads, may be left on a
\* freed node.
C18_NoDanglingLink ==
    {root_, head_, tail_} \cup NodeLinks \subseteq heap

\* An erase has freed the node the sentinel's parent was left on, and nodes
\* remain.
C18_Witness ==
    /\ op \in {"erase", "erase_it"}
    /\ hit
    /\ parent[terminal_] \notin heap
    /\ size_ >= 2

\* ---- C14 -----------------------------------------------------------------------
\* The cells a Set with sentinel s and root r refers to.
Referenced(s, r) == {s} \cup Subtree(Tree, r, Depth)

\* C14 as stated: after Set B is move-constructed from Set A, no node and no
\* sentinel is referenced by both, and once A is destroyed B's sentinel and
\* B's elements are still allocated.
C14_AsStated ==
    target.built =>
        /\ pc = "live" =>
               Referenced(terminal_, root_) \cap Referenced(target.terminal, target.root) = {}
        /\ pc = "dead" =>
               /\ target.terminal \in heap
               /\ target.root \in heap
               /\ Cardinality(Subtree(Tree, target.root, Depth)) = target.size

\* ---- C16 -----------------------------------------------------------------------
Freed == {log[i] : i \in 1..Len(log)}

\* Inside ~Set: every erasure so far freed one node, none twice, and the
\* sentinel is still allocated.
TeardownRunning ==
    pc = "loop" =>
        /\ size_ + Len(log) = size0
        /\ Cardinality(Freed) = Len(log)
        /\ Freed \cap heap = {}
        /\ terminal_ \in heap
        /\ terminal_ \notin Freed
        /\ Cardinality(heap \ {terminal_}) = size_

\* After ~Set: size() erasures and then the sentinel, nothing twice, nothing
\* left.
TeardownDone ==
    pc = "dead" =>
        /\ Len(log) = size0 + 1
        /\ Cardinality(Freed) = Len(log)
        /\ log[Len(log)] = terminal_
        /\ size_ = 0 /\ root_ = terminal_
        /\ heap = {}

\* C16: from every reachable state of the set, ~Set performs exactly size()
\* erasures, each freeing one distinct node, then frees the sentinel, and it
\* terminates; no cell is freed twice and none is left allocated.
C16_Teardown ==
    /\ [](TeardownRunning /\ TeardownDone)
    /\ (pc = "loop" ~> pc = "dead")

\* ~Set has finished on a set of three elements or more.
C16_Witness ==
    pc = "dead" /\ size0 >= 3 /\ Len(log) = size0 + 1 /\ heap = {}

====
